---- MODULE Spec2Model ----
(***************************************************************************)
(* Model of the link-previewer backend (backend/app/unfurl.py, main.py,    *)
(* models.py): the fetcher, the metadata extractor and the /unfurl         *)
(* boundary.                                                               *)
(*                                                                         *)
(* Representation.  A Python str is a sequence of tokens, each token a     *)
(* TLA+ string standing for a run of characters; the str is the            *)
(* concatenation of its tokens.  The token " " is whitespace.  An          *)
(* Optional[T] is a sequence of length at most one: None is <<>> and a     *)
(* present value v is <<v>>.  A parsed document (the BeautifulSoup tree)   *)
(* is the sequence of its meta, link and title elements in document order. *)
(***************************************************************************)
EXTENDS Integers, Sequences, FiniteSets, TLC

VARIABLES pc, url_str, response, body_read, html, data, raised, result

vars == <<pc, url_str, response, body_read, html, data, raised, result>>

----------------------------------------------------------------------------
(* Optional values and Python truthiness *)

None == <<>>

Some(v) == <<v>>

Get(o) == o[1]

\* `if x:` for an Optional[str]: neither None nor the empty string
Truthy(o) == o # None /\ Get(o) # <<>>

----------------------------------------------------------------------------
(* str.strip() *)

RECURSIVE lstrip(_)
lstrip(s) == IF s # <<>> /\ Head(s) = " " THEN lstrip(Tail(s)) ELSE s

RECURSIVE rstrip(_)
rstrip(s) == IF s # <<>> /\ s[Len(s)] = " " THEN rstrip(SubSeq(s, 1, Len(s) - 1)) ELSE s

strip(s) == rstrip(lstrip(s))

----------------------------------------------------------------------------
(* urllib.parse.urljoin over tokenised URLs.  A URL is                     *)
(* [scheme token] [authority token] path, the path being segment tokens:   *)
(* "/x" is a rooted segment, "x" (first position only) a relative one.     *)

Schemes == {"https:", "http:"}

Authorities == {"//site.test", "//cdn.test", "//xn--1ch.test"}

RelativeSegments == {"img.png"}

\* "/" + segment
Rooted(seg) == IF seg = "img.png" THEN "/img.png" ELSE seg

urlparse(u) ==
    LET scheme == IF u # <<>> /\ u[1] \in Schemes THEN u[1] ELSE ""
        r1     == IF scheme # "" THEN Tail(u) ELSE u
        netloc == IF r1 # <<>> /\ r1[1] \in Authorities THEN r1[1] ELSE ""
        path   == IF netloc # "" THEN Tail(r1) ELSE r1
    IN  [scheme |-> scheme, netloc |-> netloc, path |-> path]

urlunparse(scheme, netloc, path) ==
    (IF scheme # "" THEN <<scheme>> ELSE <<>>)
        \o (IF netloc # "" THEN <<netloc>> ELSE <<>>) \o path

urljoin(base, url) ==
    IF base = <<>> THEN url
    ELSE IF url = <<>> THEN base
    ELSE
      LET b      == urlparse(base)
          r      == urlparse(url)
          scheme == IF r.scheme = "" THEN b.scheme ELSE r.scheme
      IN  IF scheme # b.scheme \/ scheme \notin Schemes THEN url
          ELSE IF r.netloc # "" THEN urlunparse(scheme, r.netloc, r.path)
          ELSE IF r.path = <<>> THEN urlunparse(scheme, b.netloc, b.path)
          ELSE IF r.path[1] \notin RelativeSegments
               THEN urlunparse(scheme, b.netloc, r.path)
          ELSE LET base_parts == IF b.path = <<>> THEN <<>>
                                 ELSE SubSeq(b.path, 1, Len(b.path) - 1)
               IN  urlunparse(scheme, b.netloc,
                              base_parts \o <<Rooted(r.path[1])>> \o Tail(r.path))

----------------------------------------------------------------------------
(* The parsed document and BeautifulSoup's find *)

Meta(attr, key, content) == [tag |-> "meta", attr |-> attr, key |-> key, val |-> content]

Link(rel, href) == [tag |-> "link", attr |-> "rel", key |-> rel, val |-> href]

Title(string) == [tag |-> "title", attr |-> "", key |-> "", val |-> string]

\* find returns the first match in document order: the least index of S,
\* 0 when there is none
First(S) == IF S = {} THEN 0 ELSE CHOOSE i \in S : \A j \in S : i <= j

\* soup.find("meta", property=key) / soup.find("meta", attrs={"name": key})
find_meta(soup, attr, key) ==
    First({i \in DOMAIN soup :
              soup[i].tag = "meta" /\ soup[i].attr = attr /\ soup[i].key = key})

\* rel is a multi-valued attribute: bs4 matches a string against each
\* whitespace-separated token and against the whole value
RelTokens(rel) ==
    CASE rel = "shortcut icon" -> {"shortcut", "icon"}
      [] rel = "icon alt"      -> {"icon", "alt"}
      [] OTHER                 -> {rel}

RelMatches(rel, wanted) == wanted \in RelTokens(rel) \/ rel = wanted

\* soup.find("link", rel=wanted)
find_link(soup, wanted) ==
    First({i \in DOMAIN soup : soup[i].tag = "link" /\ RelMatches(soup[i].key, wanted)})

\* soup.find("title")
find_title(soup) ==
    First({i \in DOMAIN soup : soup[i].tag = "title"})

----------------------------------------------------------------------------
(* unfurl.py: the extractors *)

extract_meta_tag(soup, property_name) ==
    LET i == find_meta(soup, "property", property_name)
        j == find_meta(soup, "name", property_name)
    IN  IF i # 0 /\ Truthy(soup[i].val) THEN Some(strip(Get(soup[i].val)))
        ELSE IF j # 0 /\ Truthy(soup[j].val) THEN Some(strip(Get(soup[j].val)))
        ELSE None

\* extract_title with the Twitter title tried before the Open Graph one
extract_title_twitter_first(soup) ==
    LET og == extract_meta_tag(soup, "og:title")
        tw == extract_meta_tag(soup, "twitter:title")
        t  == find_title(soup)
    IN  IF Truthy(tw) THEN tw
        ELSE IF Truthy(og) THEN og
        ELSE IF t # 0 /\ Truthy(soup[t].val) THEN Some(strip(Get(soup[t].val)))
        ELSE None

extract_title(soup) ==
    LET og == extract_meta_tag(soup, "og:title")
        tw == extract_meta_tag(soup, "twitter:title")
        t  == find_title(soup)
    IN  IF Truthy(og) THEN og
        ELSE IF Truthy(tw) THEN tw
        ELSE IF t # 0 /\ Truthy(soup[t].val) THEN Some(strip(Get(soup[t].val)))
        ELSE None

\* extract_description with the standard description tried before Twitter's
extract_description_standard_first(soup) ==
    LET og == extract_meta_tag(soup, "og:description")
        tw == extract_meta_tag(soup, "twitter:description")
        d  == extract_meta_tag(soup, "description")
    IN  IF Truthy(og) THEN og
        ELSE IF Truthy(d) THEN d
        ELSE IF Truthy(tw) THEN tw
        ELSE None

extract_description(soup) ==
    LET og == extract_meta_tag(soup, "og:description")
        tw == extract_meta_tag(soup, "twitter:description")
        d  == extract_meta_tag(soup, "description")
    IN  IF Truthy(og) THEN og
        ELSE IF Truthy(tw) THEN tw
        ELSE IF Truthy(d) THEN d
        ELSE None

extract_image(soup, base_url) ==
    LET og == extract_meta_tag(soup, "og:image")
        tw == extract_meta_tag(soup, "twitter:image")
    IN  IF Truthy(og) THEN Some(urljoin(base_url, Get(og)))
        ELSE IF Truthy(tw) THEN Some(urljoin(base_url, Get(tw)))
        ELSE None

extract_site_name(soup) == extract_meta_tag(soup, "og:site_name")

extract_type(soup) == extract_meta_tag(soup, "og:type")

extract_locale(soup) == extract_meta_tag(soup, "og:locale")

extract_author(soup) ==
    LET a == extract_meta_tag(soup, "article:author")
        b == extract_meta_tag(soup, "author")
    IN  IF Truthy(a) THEN a ELSE IF Truthy(b) THEN b ELSE None

extract_publisher(soup) ==
    LET a == extract_meta_tag(soup, "article:publisher")
        b == extract_meta_tag(soup, "publisher")
    IN  IF Truthy(a) THEN a ELSE IF Truthy(b) THEN b ELSE None

extract_published_time(soup) ==
    LET a == extract_meta_tag(soup, "article:published_time")
        b == extract_meta_tag(soup, "og:published_time")
        c == extract_meta_tag(soup, "date")
    IN  IF Truthy(a) THEN a ELSE IF Truthy(b) THEN b ELSE IF Truthy(c) THEN c ELSE None

extract_modified_time(soup) ==
    LET a == extract_meta_tag(soup, "article:modified_time")
        b == extract_meta_tag(soup, "og:updated_time")
    IN  IF Truthy(a) THEN a ELSE IF Truthy(b) THEN b ELSE None

extract_video_url(soup, base_url) ==
    LET a == extract_meta_tag(soup, "og:video:url")
        b == extract_meta_tag(soup, "og:video")
        c == extract_meta_tag(soup, "og:video:secure_url")
    IN  IF Truthy(a) THEN Some(urljoin(base_url, Get(a)))
        ELSE IF Truthy(b) THEN Some(urljoin(base_url, Get(b)))
        ELSE IF Truthy(c) THEN Some(urljoin(base_url, Get(c)))
        ELSE None

extract_audio_url(soup, base_url) ==
    LET a == extract_meta_tag(soup, "og:audio:url")
        b == extract_meta_tag(soup, "og:audio")
    IN  IF Truthy(a) THEN Some(urljoin(base_url, Get(a)))
        ELSE IF Truthy(b) THEN Some(urljoin(base_url, Get(b)))
        ELSE None

extract_duration(soup) ==
    LET a == extract_meta_tag(soup, "og:video:duration")
        b == extract_meta_tag(soup, "video:duration")
    IN  IF Truthy(a) THEN a ELSE IF Truthy(b) THEN b ELSE None

extract_twitter_handle(soup) ==
    LET a == extract_meta_tag(soup, "twitter:creator")
        b == extract_meta_tag(soup, "twitter:site")
    IN  IF Truthy(a) THEN a ELSE IF Truthy(b) THEN b ELSE None

extract_twitter_card(soup) == extract_meta_tag(soup, "twitter:card")

extract_canonical_url(soup) ==
    LET l  == find_link(soup, "canonical")
        og == extract_meta_tag(soup, "og:url")
    IN  IF l # 0 /\ Truthy(soup[l].val) THEN soup[l].val
        ELSE IF Truthy(og) THEN og
        ELSE None

\* the loop over the three rel values, then the callable rel filter, which
\* bs4 applies to each token and to the whole value (never to a list), so
\* that it accepts exactly the links find(rel="icon") accepts
extract_favicon(soup, base_url) ==
    LET a == find_link(soup, "icon")
        b == find_link(soup, "shortcut icon")
        c == find_link(soup, "apple-touch-icon")
        d == find_link(soup, "icon")
        Href(i) == Some(urljoin(base_url, Get(soup[i].val)))
    IN  IF a # 0 /\ Truthy(soup[a].val) THEN Href(a)
        ELSE IF b # 0 /\ Truthy(soup[b].val) THEN Href(b)
        ELSE IF c # 0 /\ Truthy(soup[c].val) THEN Href(c)
        ELSE IF d # 0 /\ Truthy(soup[d].val) THEN Href(d)
        ELSE None

extract_theme_color(soup) == extract_meta_tag(soup, "theme-color")

\* str.split(","): the pieces between the "," tokens, empty pieces included
RECURSIVE split(_)
split(s) ==
    LET S == {i \in DOMAIN s : s[i] = ","}
    IN  IF S = {} THEN <<s>>
        ELSE LET i == CHOOSE k \in S : \A j \in S : k <= j
             IN  <<SubSeq(s, 1, i - 1)>> \o split(SubSeq(s, i + 1, Len(s)))

RECURSIVE strip_each(_)
strip_each(ks) == IF ks = <<>> THEN <<>> ELSE <<strip(Head(ks))>> \o strip_each(Tail(ks))

RECURSIVE drop_empty(_)
drop_empty(ks) ==
    IF ks = <<>> THEN <<>>
    ELSE (IF Head(ks) # <<>> THEN <<Head(ks)>> ELSE <<>>) \o drop_empty(Tail(ks))

\* extract_keywords without the filter of empty pieces
extract_keywords_unfiltered(soup) ==
    LET keywords_str == extract_meta_tag(soup, "keywords")
        keywords     == strip_each(split(Get(keywords_str)))
    IN  IF Truthy(keywords_str)
        THEN (IF keywords # <<>> THEN Some(keywords) ELSE None)
        ELSE None

extract_keywords(soup) ==
    LET keywords_str == extract_meta_tag(soup, "keywords")
        keywords     == drop_empty(strip_each(split(Get(keywords_str))))
    IN  IF Truthy(keywords_str)
        THEN (IF keywords # <<>> THEN Some(keywords) ELSE None)
        ELSE None

parse_html(soup, url) ==
    [ url            |-> url,
      title          |-> extract_title(soup),
      description    |-> extract_description(soup),
      image          |-> extract_image(soup, url),
      site_name      |-> extract_site_name(soup),
      type           |-> extract_type(soup),
      locale         |-> extract_locale(soup),
      author         |-> extract_author(soup),
      publisher      |-> extract_publisher(soup),
      published_time |-> extract_published_time(soup),
      modified_time  |-> extract_modified_time(soup),
      video_url      |-> extract_video_url(soup, url),
      audio_url      |-> extract_audio_url(soup, url),
      duration       |-> extract_duration(soup),
      twitter_handle |-> extract_twitter_handle(soup),
      twitter_card   |-> extract_twitter_card(soup),
      canonical_url  |-> extract_canonical_url(soup),
      favicon        |-> extract_favicon(soup, url),
      theme_color    |-> extract_theme_color(soup),
      keywords       |-> extract_keywords(soup) ]

----------------------------------------------------------------------------
(* Inputs: page URLs and documents *)

\* longest document, in elements
MaxTags == 3

\* longest keywords content, in tokens
MaxKeywordLen == 4

\* the last host is an A-label whose decoded code point (U+2260) IDNA forbids
Urls == { <<"https:", "//site.test", "/page">>,
          <<"https:", "//site.test", "/dir", "/page">>,
          <<"https:", "//xn--1ch.test", "/">> }

\* the page URL the extractor's documents are parsed against
PageUrl == <<"https:", "//site.test", "/dir", "/page">>

Attrs == {"property", "name"}

\* a text content for the meta element (attr, key): padded, and distinct per
\* attribute and key so that the source of an extracted value shows
Text(attr, key) ==
    IF attr = "property" THEN <<" ", key, " ">> ELSE <<key, " ", "by name", " ">>

\* contents of the meta element (attr, key), by the kind of field it feeds:
\* "single" a single-key field or og:title, "chain" another text chain,
\* "url" a URL field (rooted and absolute references under property,
\* relative and scheme-relative ones under name), "media" the same, fewer,
\* for the longer media chains
Contents(kind, attr, key) ==
    CASE kind = "single" ->
            IF attr = "property"
            THEN {None, Some(<<>>), Some(<<" ">>), Some(Text(attr, key))}
            ELSE {None, Some(<<" ">>), Some(Text(attr, key))}
      [] kind = "chain" ->
            IF attr = "property" THEN {Some(<<" ">>), Some(Text(attr, key))}
            ELSE {None, Some(Text(attr, key))}
      [] kind = "url" ->
            IF attr = "property"
            THEN {None, Some(<<" ", "/", key>>), Some(<<"http:", "//cdn.test", "/", key>>)}
            ELSE {Some(<<" ">>), Some(<<"img.png", "?", key>>),
                  Some(<<"//cdn.test", "/", key>>)}
      [] kind = "media" ->
            IF attr = "property"
            THEN {Some(<<" ", "/", key>>), Some(<<"http:", "//cdn.test", "/", key>>)}
            ELSE {Some(<<" ">>), Some(<<"img.png", "?", key>>)}

Hrefs(rel) == {None, Some(<<"/", rel>>), Some(<<"img.png", "?", rel>>)}

MetaPool(keys, kind) ==
    UNION {{Meta(a, k, c) : c \in Contents(kind, a, k)} : a \in Attrs, k \in keys}

LinkPool(rels) == UNION {{Link(r, h) : h \in Hrefs(r)} : r \in rels}

TitlePool == {Title(None), Title(Some(<<" ">>)), Title(Some(<<" ", "Plain", " ">>))}

\* every string of at most n tokens over the alphabet
RECURSIVE Strings(_, _)
Strings(alphabet, n) ==
    IF n = 0 THEN {<<>>}
    ELSE LET S == Strings(alphabet, n - 1)
         IN  S \cup {Append(s, c) : <<s, c>> \in {x \in S \X alphabet : Len(x[1]) = n - 1}}

KeywordContents ==
    {Some(s) : s \in Strings({"a", "b", ",", " "}, MaxKeywordLen)}
        \cup {Some(<<"a", ",", " ", "b", " ", ",", ",", " ", "c">>)}

\* the tags that bear on one field of the record
Pools ==
    { MetaPool({"og:title", "twitter:title"}, "chain") \cup TitlePool,
      MetaPool({"og:title"}, "single") \cup TitlePool,
      MetaPool({"og:description", "twitter:description", "description"}, "chain"),
      MetaPool({"og:image", "twitter:image"}, "url"),
      MetaPool({"og:site_name"}, "single"),
      MetaPool({"og:type"}, "single"),
      MetaPool({"og:locale"}, "single"),
      MetaPool({"article:author", "author"}, "chain"),
      MetaPool({"article:publisher", "publisher"}, "chain"),
      MetaPool({"article:published_time", "og:published_time", "date"}, "chain"),
      MetaPool({"article:modified_time", "og:updated_time"}, "chain"),
      MetaPool({"og:video:url", "og:video", "og:video:secure_url"}, "media"),
      MetaPool({"og:audio:url", "og:audio"}, "media"),
      MetaPool({"og:video:duration", "video:duration"}, "chain"),
      MetaPool({"twitter:creator", "twitter:site"}, "chain"),
      MetaPool({"twitter:card"}, "single"),
      LinkPool({"canonical"}) \cup MetaPool({"og:url"}, "url"),
      LinkPool({"icon", "shortcut icon", "apple-touch-icon", "icon alt"}),
      MetaPool({"theme-color"}, "single") }

\* documents of at most n elements drawn from one pool
DocsOver(pool, n) == UNION {[1..k -> pool] : k \in 0..n}

KeywordDocs ==
    {<<Meta(a, "keywords", c)>> : a \in Attrs, c \in KeywordContents}

Docs == UNION {DocsOver(pool, MaxTags) : pool \in Pools} \cup KeywordDocs

----------------------------------------------------------------------------
(* The extractor on its own: parse_html applied to a document *)

InitParse ==
    /\ pc = "parse"
    /\ url_str = PageUrl
    /\ html \in {Some(d) : d \in Docs}
    /\ response = None
    /\ body_read = FALSE
    /\ data = None
    /\ raised = None
    /\ result = None

\* unfurl_url: return parse_html(html, url)
ParseHtml ==
    /\ pc = "parse"
    /\ data' = Some(parse_html(Get(html), url_str))
    /\ pc' = "return"
    /\ UNCHANGED <<url_str, response, body_read, html, raised, result>>

\* unfurl: return UnfurlResponse(success=True, data=data)
ReturnSuccess ==
    /\ pc = "return"
    /\ result' = Some([success |-> TRUE, data |-> data, error |-> None])
    /\ pc' = "done"
    /\ UNCHANGED <<url_str, response, body_read, html, data, raised>>

NextParse == ParseHtml

SpecParse == InitParse /\ [][NextParse]_vars

----------------------------------------------------------------------------
(* unfurl.py: fetch_url.  Header values are strings of one-character       *)
(* tokens (Content-Length) or of media-type tokens (Content-Type).         *)

\* MAX_CONTENT_LENGTH
MAX_CONTENT_LENGTH == 5 * 1024 * 1024

Digits == {"0", "1", "2", "3", "4", "5", "6", "7", "8", "9"}

DigitVal(c) ==
    CASE c = "0" -> 0 [] c = "1" -> 1 [] c = "2" -> 2 [] c = "3" -> 3 [] c = "4" -> 4
      [] c = "5" -> 5 [] c = "6" -> 6 [] c = "7" -> 7 [] c = "8" -> 8 [] c = "9" -> 9

\* the literal without its sign, and the sign, after the whitespace is stripped
Unsigned(s) ==
    LET t == strip(s)
    IN  IF t # <<>> /\ t[1] \in {"+", "-"} THEN SubSeq(t, 2, Len(t)) ELSE t

Sign(s) == IF strip(s) # <<>> /\ strip(s)[1] = "-" THEN -1 ELSE 1

\* whether int(s) returns: surrounding whitespace, an optional sign, then
\* decimal digits with single underscores allowed between two digits
IsIntLiteral(s) ==
    LET u == Unsigned(s)
    IN  /\ u # <<>>
        /\ \A i \in DOMAIN u : u[i] \in Digits \cup {"_"}
        /\ u[1] \in Digits /\ u[Len(u)] \in Digits
        /\ \A i \in 1..(Len(u) - 1) : ~(u[i] = "_" /\ u[i + 1] = "_")

\* the value of the digits of s, underscores skipped
RECURSIVE DigitsValue(_)
DigitsValue(s) ==
    IF s = <<>> THEN 0
    ELSE IF s[Len(s)] = "_" THEN DigitsValue(SubSeq(s, 1, Len(s) - 1))
    ELSE 10 * DigitsValue(SubSeq(s, 1, Len(s) - 1)) + DigitVal(s[Len(s)])

\* int(s), for s with IsIntLiteral(s)
int(s) == Sign(s) * DigitsValue(Unsigned(s))

\* str(n) for a natural number n
RECURSIVE Decimal(_)
Decimal(n) ==
    LET d == CHOOSE c \in Digits : DigitVal(c) = n % 10
    IN  IF n < 10 THEN <<d>> ELSE Decimal(n \div 10) \o <<d>>

\* `needle in s`, for a needle that is one token of s
Contains(s, needle) == \E i \in DOMAIN s : s[i] = needle

\* the Content-Type test accepting any text/* type
IsHtmlContentType_any_text(content_type) ==
    \/ Contains(content_type, "text/html") \/ Contains(content_type, "application/xhtml")
    \/ Contains(content_type, "text/plain")

\* the test of the Content-Type header in fetch_url
IsHtmlContentType(content_type) ==
    Contains(content_type, "text/html") \/ Contains(content_type, "application/xhtml")

StatusCodes == {200, 304, 404, 500}

\* raise_for_status() passes the 2xx codes only
IsSuccess(status_code) == 200 <= status_code /\ status_code <= 299

\* the Content-Length headers a server frames a body of `size` bytes with:
\* none (the body ends with the connection) or the size in decimal
ContentLengths(size) == { None, Some(Decimal(size)) }

\* Content-Length values that are not 1*DIGIT
MalformedContentLengths ==
    { Some(<<>>), Some(<<"a", "b", "c">>),
      Some(<<"+", "5", "2", "4", "2", "8", "8", "1">>) }

\* the HTTP/1.1 parser of the client accepts a Content-Length of digits only
IsValidContentLength(h) ==
    h = None \/ (Get(h) # <<>> /\ \A i \in DOMAIN Get(h) : Get(h)[i] \in Digits)

ContentTypes ==
    { None, Some(<<"text/html">>), Some(<<"text/html", "; charset=utf-8">>),
      Some(<<"application/xhtml", "+xml">>), Some(<<"application/json">>),
      Some(<<"text/plain">>) }

\* response bodies with their sizes in bytes: the two pages of the
\* end-to-end scenarios, an empty one, and the plain page padded to the cap
\* and to one byte above it
Bodies ==
    { [doc  |-> <<Meta("property", "og:title", Some(<<"Example">>)),
                  Meta("name", "twitter:image", Some(<<"/img.png">>))>>,
       size |-> 90],
      [doc |-> <<Title(Some(<<"Plain">>))>>, size |-> 20],
      [doc |-> <<>>, size |-> 0],
      [doc |-> <<Title(Some(<<"Plain">>))>>, size |-> MAX_CONTENT_LENGTH],
      [doc |-> <<Title(Some(<<"Plain">>))>>, size |-> MAX_CONTENT_LENGTH + 1] }

\* a 304 reply carries no body
BodiesOf(status_code) ==
    IF status_code = 304 THEN { b \in Bodies : b.size = 0 } ELSE Bodies

\* what a server sends back: the status line, the two headers fetch_url
\* reads, and the body
Replies ==
    UNION { UNION { [status_code : {s}, content_length : ContentLengths(b.size)
                                                \cup MalformedContentLengths,
                     content_type : ContentTypes, body : {b.doc}, size : {b.size}]
                    : b \in BodiesOf(s) }
            : s \in StatusCodes }

\* the responses client.get() returns
Responses == { r \in Replies : IsValidContentLength(r.content_length) }

\* the classes an exception of the given class is an instance of
Bases(type) ==
    CASE type = "ReadTimeout" ->
            {"ReadTimeout", "TimeoutException", "TransportError", "RequestError",
             "HTTPError", "Exception"}
      [] type = "ConnectError" ->
            {"ConnectError", "NetworkError", "TransportError", "RequestError",
             "HTTPError", "Exception"}
      [] type = "RemoteProtocolError" ->
            {"RemoteProtocolError", "ProtocolError", "TransportError", "RequestError",
             "HTTPError", "Exception"}
      [] type = "HTTPStatusError" -> {"HTTPStatusError", "HTTPError", "Exception"}
      [] type = "InvalidURL" -> {"InvalidURL", "Exception"}
      [] type = "InvalidCodepoint" ->
            {"InvalidCodepoint", "IDNAError", "UnicodeError", "ValueError", "Exception"}
      [] type = "ValueError" -> {"ValueError", "Exception"}

\* an exception in flight: its class, its kind in the failure taxonomy
\* (Timeout, HttpStatus, Network, TooLarge, NotHtml, else Unexpected), str(e)
Exc(type, kind, msg, status_code) ==
    [type |-> type, kind |-> kind, msg |-> msg, status_code |-> status_code]

Init ==
    /\ pc = "get"
    /\ url_str \in Urls
    /\ response = None
    /\ body_read = FALSE
    /\ html = None
    /\ data = None
    /\ raised = None
    /\ result = None

\* hosts whose IDNA encoding fails
InvalidIdnaHosts == {"//xn--1ch.test"}

\* str(e) of the idna.InvalidCodepoint raised for the host; the token
\* "U+2260" between the quotes stands for the decoded label
InvalidCodepointText(host) ==
    <<"Codepoint U+2260 at position 1 of ", "'", "U+2260", "'", " not allowed">>

\* response = await client.get(url, ...): the URL's host is IDNA-encoded
\* before anything is sent; the reply's headers are parsed, a Content-Length
\* that is not a number being a protocol error; the request is not streamed,
\* so httpx reads the whole body into the response before get() returns
ClientGet ==
    /\ pc = "get"
    /\ IF url_str[2] \in InvalidIdnaHosts
       THEN /\ raised' = Some(Exc("InvalidCodepoint", "Unexpected",
                                  InvalidCodepointText(url_str[2]), 0))
            /\ pc' = "except"
            /\ UNCHANGED <<response, body_read>>
       ELSE \/ /\ raised' = Some(Exc("ReadTimeout", "Timeout", <<"timed out">>, 0))
               /\ pc' = "except"
               /\ UNCHANGED <<response, body_read>>
            \/ /\ raised' = Some(Exc("ConnectError", "Network", <<"connection refused">>, 0))
               /\ pc' = "except"
               /\ UNCHANGED <<response, body_read>>
            \/ /\ raised' = Some(Exc("InvalidURL", "Unexpected", <<"invalid url">>, 0))
               /\ pc' = "except"
               /\ UNCHANGED <<response, body_read>>
            \/ \E r \in Replies :
                  IF r \in Responses
                  THEN /\ response' = Some(r)
                       /\ body_read' = TRUE
                       /\ pc' = "raise_for_status"
                       /\ UNCHANGED raised
                  ELSE /\ raised' = Some(Exc("RemoteProtocolError", "Network",
                                             <<"bad Content-Length">>, 0))
                       /\ pc' = "except"
                       /\ UNCHANGED <<response, body_read>>
    /\ UNCHANGED <<url_str, html, data, result>>

\* response.raise_for_status()
RaiseForStatus ==
    /\ pc = "raise_for_status"
    /\ IF ~IsSuccess(Get(response).status_code)
       THEN /\ raised' = Some(Exc("HTTPStatusError", "HttpStatus", <<"status error">>,
                                  Get(response).status_code))
            /\ pc' = "except"
       ELSE /\ pc' = "check_length"
            /\ UNCHANGED raised
    /\ UNCHANGED <<url_str, response, body_read, html, data, result>>

\* if content_length and int(content_length) > MAX_CONTENT_LENGTH: raise ValueError
CheckContentLength ==
    /\ pc = "check_length"
    /\ LET content_length == Get(response).content_length
       IN  IF ~Truthy(content_length)
           THEN pc' = "check_type" /\ UNCHANGED raised
           ELSE IF ~IsIntLiteral(Get(content_length))
           THEN /\ raised' = Some(Exc("ValueError", "Unexpected",
                        <<"invalid literal for int() with base 10: '">>
                            \o Get(content_length) \o <<"'">>, 0))
                /\ pc' = "except"
           ELSE IF int(Get(content_length)) > MAX_CONTENT_LENGTH
           THEN /\ raised' = Some(Exc("ValueError", "TooLarge",
                        <<"Content too large: ">> \o Get(content_length) \o <<" bytes">>, 0))
                /\ pc' = "except"
           ELSE pc' = "check_type" /\ UNCHANGED raised
    /\ UNCHANGED <<url_str, response, body_read, html, data, result>>

\* content_type = response.headers.get("content-type", ""); raise unless HTML
CheckContentType ==
    /\ pc = "check_type"
    /\ LET h            == Get(response).content_type
           content_type == IF h = None THEN <<>> ELSE Get(h)
       IN  IF ~IsHtmlContentType(content_type)
           THEN /\ raised' = Some(Exc("ValueError", "NotHtml",
                        <<"Not HTML content: ">> \o content_type, 0))
                /\ pc' = "except"
           ELSE pc' = "text" /\ UNCHANGED raised
    /\ UNCHANGED <<url_str, response, body_read, html, data, result>>

\* return response.text, received by unfurl_url as html
ReturnText ==
    /\ pc = "text"
    /\ html' = Some(Get(response).body)
    /\ pc' = "parse"
    /\ UNCHANGED <<url_str, response, body_read, data, raised, result>>

----------------------------------------------------------------------------
(* main.py: the except clauses of unfurl, tried in source order *)

GENERIC_ERROR == <<"An unexpected error occurred while processing the URL">>

Failure(error) == Some([success |-> FALSE, data |-> None, error |-> Some(error)])

Handle(error) ==
    /\ result' = Failure(error)
    /\ pc' = "done"
    /\ UNCHANGED <<url_str, response, body_read, html, data, raised>>

\* except httpx.TimeoutException
HandleTimeout ==
    /\ pc = "except"
    /\ "TimeoutException" \in Bases(Get(raised).type)
    /\ Handle(<<"Request timed out while fetching ">> \o url_str)

\* except httpx.HTTPStatusError as e
HandleHTTPStatusError ==
    /\ pc = "except"
    /\ "TimeoutException" \notin Bases(Get(raised).type)
    /\ "HTTPStatusError" \in Bases(Get(raised).type)
    /\ Handle(<<"HTTP error ", ToString(Get(raised).status_code), " while fetching ">>
                  \o url_str)

\* except httpx.RequestError as e
HandleRequestError ==
    /\ pc = "except"
    /\ {"TimeoutException", "HTTPStatusError"} \cap Bases(Get(raised).type) = {}
    /\ "RequestError" \in Bases(Get(raised).type)
    /\ Handle(<<"Failed to connect to ">> \o url_str \o <<": ", Get(raised).type>>)

\* except ValueError as e
HandleValueError ==
    /\ pc = "except"
    /\ {"TimeoutException", "HTTPStatusError", "RequestError"}
           \cap Bases(Get(raised).type) = {}
    /\ "ValueError" \in Bases(Get(raised).type)
    /\ Handle(Get(raised).msg)

\* except Exception as e
HandleException ==
    /\ pc = "except"
    /\ {"TimeoutException", "HTTPStatusError", "RequestError", "ValueError"}
           \cap Bases(Get(raised).type) = {}
    /\ "Exception" \in Bases(Get(raised).type)
    /\ Handle(GENERIC_ERROR)

Next ==
    \/ ClientGet
    \/ RaiseForStatus
    \/ CheckContentLength
    \/ CheckContentType
    \/ ReturnText
    \/ ParseHtml
    \/ ReturnSuccess
    \/ HandleTimeout
    \/ HandleHTTPStatusError
    \/ HandleRequestError
    \/ HandleValueError
    \/ HandleException

Spec == Init /\ [][Next]_vars

----------------------------------------------------------------------------
(* Properties of the extractor, checked under SpecParse *)

\* the parsed document and the record, once parse_html has returned
Parsed == data # None

Soup == Get(html)

Record == Get(data)

StringFields ==
    {"title", "description", "image", "site_name", "type", "locale", "author",
     "publisher", "published_time", "modified_time", "video_url", "audio_url",
     "duration", "twitter_handle", "twitter_card", "canonical_url", "favicon",
     "theme_color"}

UrlFields == {"image", "video_url", "audio_url", "favicon", "canonical_url"}

\* a URL with a scheme
IsAbsolute(u) == u # <<>> /\ u[1] \in Schemes

\* the element at i is the first meta element of the document carrying key
\* under the attribute attr
IsFirstMeta(soup, i, attr, key) ==
    /\ i \in DOMAIN soup
    /\ soup[i].tag = "meta" /\ soup[i].attr = attr /\ soup[i].key = key
    /\ \A j \in 1..(i - 1) :
          ~(soup[j].tag = "meta" /\ soup[j].attr = attr /\ soup[j].key = key)

HasMeta(soup, attr, key) == \E i \in DOMAIN soup : IsFirstMeta(soup, i, attr, key)

\* C1: no string field of the record returned by parse_html is the empty
\* string: each is absent or non-empty, the single-key fields included when
\* the meta content is whitespace only.
C1_NoEmptyStringField ==
    Parsed => \A f \in StringFields : Record[f] # Some(<<>>)

\* C2: each URL-valued field of the record is absent or an absolute URL,
\* relative references (a relative canonical href or og:url included) having
\* been resolved against the page URL.
C2_UrlFieldsAbsolute ==
    Parsed => \A f \in UrlFields : Record[f] = None \/ IsAbsolute(Get(Record[f]))

\* C10: when a meta element with property = key exists, extract_meta_tag
\* yields that first element's trimmed content, or nothing if its content is
\* missing or empty, and no meta element with name = key is consulted
\* (observed on og:site_name, whose field is extract_meta_tag's result).
C10_NameProbedOnlyWithoutProperty ==
    Parsed =>
        \A i \in DOMAIN Soup :
            IsFirstMeta(Soup, i, "property", "og:site_name") =>
                Record.site_name =
                    IF Truthy(Soup[i].val) THEN Some(strip(Get(Soup[i].val))) ELSE None

----------------------------------------------------------------------------
(* C6: og:title *)

\* content that is present and has a non-whitespace character
NonBlank(o) == Truthy(o) /\ strip(Get(o)) # <<>>

\* C6 as stated: in a document containing an og:title meta element, title
\* is that element's content, trimmed (an empty one counting as absent),
\* whatever twitter:title or <title> the document also contains.
C6_OgTitleContentIsTitle ==
    Parsed =>
        \A i \in DOMAIN Soup :
            (IsFirstMeta(Soup, i, "property", "og:title") /\ Soup[i].val # None) =>
                \/ Record.title = Some(strip(Get(Soup[i].val)))
                \/ strip(Get(Soup[i].val)) = <<>> /\ Record.title = None

\* C6 amended: when the first meta element with property og:title has
\* non-blank content, or when no such element has content and the first meta
\* element with name og:title has non-blank content, title is that content,
\* trimmed, whatever twitter:title or <title> the document also contains.
C6_NonBlankOgTitleIsTitle ==
    Parsed =>
        \A i \in DOMAIN Soup :
            /\ (IsFirstMeta(Soup, i, "property", "og:title") /\ NonBlank(Soup[i].val)) =>
                  Record.title = Some(strip(Get(Soup[i].val)))
            /\ ( /\ IsFirstMeta(Soup, i, "name", "og:title") /\ NonBlank(Soup[i].val)
                 /\ \A j \in DOMAIN Soup :
                       IsFirstMeta(Soup, j, "property", "og:title") => ~Truthy(Soup[j].val) ) =>
                  Record.title = Some(strip(Get(Soup[i].val)))

\* an og:title with padded content beside a twitter:title and a <title>,
\* both with text of their own
C6_Witness ==
    /\ Parsed
    /\ Len(Soup) = 3
    /\ \E i, j, k \in DOMAIN Soup :
          /\ IsFirstMeta(Soup, i, "property", "og:title")
          /\ Soup[i].val = Some(<<" ", "og:title", " ">>)
          /\ Soup[j].tag = "meta" /\ Soup[j].key = "twitter:title" /\ NonBlank(Soup[j].val)
          /\ Soup[k].tag = "title" /\ NonBlank(Soup[k].val)
    /\ Record.title = Some(<<"og:title">>)

----------------------------------------------------------------------------
(* C7: the fallback chains.  A source is a meta key (its value is          *)
(* extract_meta_tag's), the <title> element (its text, trimmed) or a link  *)
(* rel (the href of the first link with that rel).                         *)

Chains ==
    [ title          |-> <<<<"meta", "og:title">>, <<"meta", "twitter:title">>, <<"title", "">>>>,
      description    |-> <<<<"meta", "og:description">>, <<"meta", "twitter:description">>,
                           <<"meta", "description">>>>,
      image          |-> <<<<"meta", "og:image">>, <<"meta", "twitter:image">>>>,
      author         |-> <<<<"meta", "article:author">>, <<"meta", "author">>>>,
      publisher      |-> <<<<"meta", "article:publisher">>, <<"meta", "publisher">>>>,
      published_time |-> <<<<"meta", "article:published_time">>, <<"meta", "og:published_time">>,
                           <<"meta", "date">>>>,
      modified_time  |-> <<<<"meta", "article:modified_time">>, <<"meta", "og:updated_time">>>>,
      video_url      |-> <<<<"meta", "og:video:url">>, <<"meta", "og:video">>,
                           <<"meta", "og:video:secure_url">>>>,
      audio_url      |-> <<<<"meta", "og:audio:url">>, <<"meta", "og:audio">>>>,
      duration       |-> <<<<"meta", "og:video:duration">>, <<"meta", "video:duration">>>>,
      twitter_handle |-> <<<<"meta", "twitter:creator">>, <<"meta", "twitter:site">>>>,
      canonical_url  |-> <<<<"link", "canonical">>, <<"meta", "og:url">>>> ]

ChainedFields == DOMAIN Chains

SourceValue(soup, src) ==
    CASE src[1] = "meta"  -> extract_meta_tag(soup, src[2])
      [] src[1] = "title" ->
            LET S == {i \in DOMAIN soup : soup[i].tag = "title"}
            IN  IF S = {} THEN None
                ELSE LET t == soup[CHOOSE i \in S : \A j \in S : i <= j].val
                     IN  IF t = None THEN None ELSE Some(strip(Get(t)))
      [] src[1] = "link"  ->
            LET S == {i \in DOMAIN soup : soup[i].tag = "link" /\ soup[i].key = src[2]}
            IN  IF S = {} THEN None
                ELSE soup[CHOOSE i \in S : \A j \in S : i <= j].val

\* the forms in which a field stores the source value v: resolved against
\* the page URL for the media fields; for canonical_url the chain fixes the
\* source, not the resolution
Stored(field, v, url) ==
    IF field \in {"image", "video_url", "audio_url"} THEN {Some(urljoin(url, v))}
    ELSE IF field = "canonical_url" THEN {Some(v), Some(urljoin(url, v))}
    ELSE {Some(v)}

\* C7: every chained field takes the value of the first source of its chain
\* that is present and non-empty; a lower-priority source is used only when
\* every higher-priority one is absent or empty.
C7_FirstNonEmptySourceWins ==
    Parsed =>
        \A f \in ChainedFields :
            \A n \in DOMAIN Chains[f] :
                ( /\ Truthy(SourceValue(Soup, Chains[f][n]))
                  /\ \A m \in 1..(n - 1) : ~Truthy(SourceValue(Soup, Chains[f][m])) ) =>
                    Record[f] \in Stored(f, Get(SourceValue(Soup, Chains[f][n])), Record.url)

\* og:title without content, twitter:title with a value, a <title> with text:
\* title is the Twitter value
C7_Witness ==
    /\ Parsed
    /\ ~Truthy(SourceValue(Soup, <<"meta", "og:title">>))
    /\ HasMeta(Soup, "property", "og:title")
    /\ SourceValue(Soup, <<"meta", "twitter:title">>) = Some(<<"twitter:title", " ", "by name">>)
    /\ SourceValue(Soup, <<"title", "">>) = Some(<<"Plain">>)
    /\ Record.title = Some(<<"twitter:title", " ", "by name">>)

----------------------------------------------------------------------------
(* C8: keywords *)

\* the pieces of s between its "," tokens, by the positions of the commas
Pieces(s) ==
    LET commas == {i \in DOMAIN s : s[i] = ","}
        cuts   == {0} \cup commas \cup {Len(s) + 1}
        after(i) == CHOOSE j \in cuts : j > i /\ \A k \in cuts : k > i => j <= k
        nth[n \in 1..(Cardinality(commas) + 1)] ==
            IF n = 1 THEN 0 ELSE after(nth[n - 1])
    IN  [n \in 1..(Cardinality(commas) + 1) |-> SubSeq(s, nth[n] + 1, after(nth[n]) - 1)]

IsBlank(piece) == \A i \in DOMAIN piece : piece[i] = " "

\* the trimmed non-blank pieces of s, in order
ExpectedKeywords(s) ==
    LET kept == SelectSeq(Pieces(s), LAMBDA x : ~IsBlank(x))
    IN  [n \in DOMAIN kept |-> strip(kept[n])]

\* the content of the only element of a document that is one keywords meta
OnlyKeywords ==
    IF Len(Soup) = 1 /\ Soup[1].tag = "meta" /\ Soup[1].key = "keywords"
    THEN Soup[1].val ELSE None

\* C8: keywords is the keywords content split on ",", each piece trimmed,
\* empty pieces dropped, in source order, and absent when nothing is left;
\* if present it is non-empty and has no empty or whitespace-only entry.
C8_KeywordsSplitTrimDrop ==
    Parsed =>
        /\ OnlyKeywords # None =>
              Record.keywords =
                  IF ExpectedKeywords(Get(OnlyKeywords)) = <<>> THEN None
                  ELSE Some(ExpectedKeywords(Get(OnlyKeywords)))
        /\ OnlyKeywords = Some(<<"a", ",", " ", "b", " ", ",", ",", " ", "c">>) =>
              Record.keywords = Some(<< <<"a">>, <<"b">>, <<"c">> >>)
        /\ OnlyKeywords \in {Some(<<>>), Some(<<" ", ",", " ">>)} =>
              Record.keywords = None
        /\ Record.keywords # None =>
              /\ Get(Record.keywords) # <<>>
              /\ \A n \in DOMAIN Get(Record.keywords) : ~IsBlank(Get(Record.keywords)[n])

\* "a, b ,, c" parsed into its three keywords
C8_Witness ==
    /\ Parsed
    /\ OnlyKeywords = Some(<<"a", ",", " ", "b", " ", ",", ",", " ", "c">>)
    /\ Record.keywords = Some(<< <<"a">>, <<"b">>, <<"c">> >>)

----------------------------------------------------------------------------
(* C11: favicon *)

\* the href of the first link element whose rel is exactly rel, if any
HrefOfRel(soup, rel) ==
    LET S == {i \in DOMAIN soup : soup[i].tag = "link" /\ soup[i].key = rel}
    IN  IF S = {} THEN None ELSE soup[CHOOSE i \in S : \A j \in S : i <= j].val

\* the link elements with an href whose rel has several tokens, icon among
\* them, and is none of the three named values
MultiTokenIcons(soup) ==
    {i \in DOMAIN soup :
        /\ soup[i].tag = "link" /\ Truthy(soup[i].val)
        /\ soup[i].key \notin {"icon", "shortcut icon", "apple-touch-icon"}
        /\ "icon" \in RelTokens(soup[i].key) /\ Cardinality(RelTokens(soup[i].key)) > 1}

\* C11: the favicon is chosen by rel priority, not document order: rel icon
\* before shortcut icon before apple-touch-icon, a link with a multi-token
\* rel containing icon only when none of these yields an href; the chosen
\* href is resolved against the page URL.
C11_FaviconByRelPriority ==
    Parsed =>
        LET icon     == HrefOfRel(Soup, "icon")
            shortcut == HrefOfRel(Soup, "shortcut icon")
            apple    == HrefOfRel(Soup, "apple-touch-icon")
        IN  IF Truthy(icon) THEN Record.favicon = Some(urljoin(Record.url, Get(icon)))
            ELSE IF Truthy(shortcut)
                 THEN Record.favicon = Some(urljoin(Record.url, Get(shortcut)))
            ELSE IF Truthy(apple)
                 THEN Record.favicon = Some(urljoin(Record.url, Get(apple)))
            ELSE \/ Record.favicon = None
                 \/ \E i \in MultiTokenIcons(Soup) :
                       Record.favicon = Some(urljoin(Record.url, Get(Soup[i].val)))

----------------------------------------------------------------------------
(* Properties of the fetcher and of the boundary, checked under Spec *)

FetcherKinds == {"Timeout", "HttpStatus", "Network", "TooLarge", "NotHtml"}

\* the string u occurs in the string msg
Embeds(msg, u) ==
    \E i \in 0..(Len(msg) - Len(u)) : SubSeq(msg, i + 1, i + Len(u)) = u

Failed == result # None /\ ~Get(result).success

\* C3: a response whose Content-Length declares more than the cap fails as
\* TooLarge before its body has been read into memory.
C3_TooLargeBeforeBodyRead ==
    (raised # None /\ Get(raised).kind = "TooLarge") => ~body_read

\* C4: for every Fetcher failure kind the error message of the failure
\* result embeds the requested URL.
C4_ErrorEmbedsUrl ==
    (Failed /\ Get(raised).kind \in FetcherKinds) =>
        Embeds(Get(Get(result).error), url_str)

\* C5: a failure outside the five Fetcher kinds is reported with the fixed
\* generic message, never with the text of the internal exception.
C5_UnexpectedIsGeneric ==
    (Failed /\ Get(raised).kind \notin FetcherKinds) =>
        Get(result).error = Some(GENERIC_ERROR)

\* a received response with status 200 whose Content-Type, as a string,
\* contains neither text/html nor application/xhtml
NonHtml200 ==
    /\ response # None
    /\ Get(response).status_code = 200
    /\ \A i \in DOMAIN (IF Get(response).content_type = None THEN <<>>
                        ELSE Get(Get(response).content_type)) :
          Get(Get(response).content_type)[i] \notin {"text/html", "application/xhtml"}

\* no HTML text has reached the extractor
NothingExtracted == html = None /\ data = None /\ pc \notin {"text", "parse", "return"}

\* the outcome of the Content-Length check, which runs before the
\* Content-Type check
LengthCheck ==
    IF Get(response).size > 5 * 1024 * 1024 /\ Get(response).content_length # None
    THEN "TooLarge" ELSE "passed"

\* C9 as stated: a 200 response of a non-HTML Content-Type makes fetch_url
\* fail as NotHtml, whatever the body, and no HTML text reaches the Extractor.
C9_NonHtmlFailsNotHtml ==
    NonHtml200 =>
        /\ NothingExtracted
        /\ pc = "done" => (Failed /\ Get(raised).kind = "NotHtml")

\* C9 amended: a 200 response of a non-HTML Content-Type makes fetch_url
\* fail, whatever the body, and no HTML text reaches the Extractor; the
\* failure is NotHtml unless the Content-Length check, which runs first, has
\* raised TooLarge for a declared size above the cap.
C9_NonHtmlFails ==
    NonHtml200 =>
        /\ NothingExtracted
        /\ pc = "done" =>
              /\ Failed
              /\ Get(raised).type = "ValueError"
              /\ Get(raised).kind = IF LengthCheck = "passed" THEN "NotHtml" ELSE LengthCheck

\* application/json with status 200 and a body that parses as HTML: NotHtml
C9_Witness ==
    /\ pc = "done"
    /\ NonHtml200
    /\ Get(response).content_type = Some(<<"application/json">>)
    /\ Get(response).body # <<>>
    /\ Failed
    /\ Get(raised).kind = "NotHtml"
    /\ Get(result).error = Some(<<"Not HTML content: ", "application/json">>)

====
